---- MODULE Spec2Model ----
(***************************************************************************)
(* APPLES: the directive-based plugin load-order scheduler of              *)
(* src/__init__.py (_load_plugins and the four directive handlers).        *)
(*                                                                         *)
(* The registry (plugin_data) is a Python dict in insertion order; it is   *)
(* modelled as a sequence of entries, position = registry order.  A module *)
(* handle is modelled by the identity of the plugin it was imported for.   *)
(* importlib.import_module is taken to return; the call of a               *)
(* run-after-load method may return or raise.                              *)
(*                                                                         *)
(* The manifest normaliser (_parse_apm_json_0_1_0) is a function of one    *)
(* record; ParseSpec applies it to the raw records _apm_handler may read.  *)
(***************************************************************************)
EXTENDS Naturals, Sequences, FiniteSets, TLC

(* ---------------------------------------------------------------- bounds *)

\* The identities the manifests may carry, in manifest-discovery order.
Identities == <<"a", "b", "c">>

\* An identity no manifest of the registry carries.
Ghost == "z"

\* The service classes a manifest may declare; NoService: the manifest has
\* no "service" key (the normaliser supplies none).
NoService == "<none>"
ServiceClasses == {"svc", "aux"}

\* The service class wildcard references name.
WildcardClasses == {"svc"}

\* Total number of directives declared in a registry.
MaxDirectives == 2

\* How many times in a row a manifest record is normalised.
MaxPasses == 2

(* ------------------------------------------------------------ vocabulary *)

DirectiveKinds == {"load-after", "load-before", "load-deny", "run-after-load"}

\* A reference: wildcard = the string starts with "$", name = the rest.
Concrete(n) == [wildcard |-> FALSE, name |-> n]
Wildcard(s) == [wildcard |-> TRUE, name |-> s]

Range(s) == {s[x] : x \in DOMAIN s}

References ==
    {Concrete(n) : n \in Range(Identities) \cup {Ghost}}
        \cup {Wildcard(s) : s \in WildcardClasses}

Directives ==
    [directive : DirectiveKinds, module : References, executed : {FALSE}]

(* -------------------------------------------------------------- registry *)

\* Position of the entry called name in the registry, 0 when there is none
\* (plugin_data[name] raises KeyError, plugin_data.get(name) is None).
IndexOf(pd, name) ==
    LET called == {x \in DOMAIN pd : pd[x].name = name}
    IN IF called = {} THEN 0 ELSE CHOOSE x \in called : TRUE

\* The generator that stops after the first entry of the class.
resolve_first_only(plugin_name, pd) ==
    IF plugin_name.wildcard
    THEN LET hits == {x \in DOMAIN pd : pd[x].service = plugin_name.name}
             missing == {x \in DOMAIN pd : pd[x].service = NoService}
             first == CHOOSE x \in hits : \A y \in hits : x <= y
         IN IF hits = {} THEN [names |-> <<>>, fails |-> missing # {}]
            ELSE [names |-> <<pd[first].name>>,
                  fails |-> \E x \in missing : x < first]
    ELSE [names |-> <<plugin_name.name>>, fails |-> FALSE]

\* _resolve_plugin_name: a generator.  names: what it yields, in registry
\* order; fails: it raises KeyError after them, on reaching the first entry
\* that has no "service" key.
_resolve_plugin_name(plugin_name, pd) ==
    IF plugin_name.wildcard
    THEN LET missing == {x \in DOMAIN pd : pd[x].service = NoService}
             stop == IF missing = {} THEN Len(pd) + 1
                     ELSE CHOOSE x \in missing : \A y \in missing : x <= y
             hit(x) == x < stop /\ pd[x].service = plugin_name.name
             idx == SelectSeq([x \in 1..Len(pd) |-> x], hit)
         IN [names |-> [x \in 1..Len(idx) |-> pd[idx[x]].name],
             fails |-> missing # {}]
    ELSE [names |-> <<plugin_name.name>>, fails |-> FALSE]

(* ---------------------------------------------------- directive handlers *)

\* Each handler consumes the generator name by name.  Its result: pd, the
\* registry as the handler leaves it; exc, the exception it raises ("none"
\* when it returns); invoke, whether it calls the run-after-load method.
Result(pd, exc, invoke) == [pd |-> pd, exc |-> exc, invoke |-> invoke]

\* First position of names holding one of stops, Len(names) + 1 when none
\* does: where the handler's for loop ends early.
FirstWhere(names, stops) ==
    LET hits == {x \in DOMAIN names : names[x] \in stops}
    IN IF hits = {} THEN Len(names) + 1
       ELSE CHOOSE x \in hits : \A y \in hits : x <= y

Absent(pd, name) == IndexOf(pd, name) = 0

\* load-before that stops an object only once the subject is loaded.
load_before_inverted(j, i, pd) ==
    LET r == _resolve_plugin_name(pd[i].load_directives[j].module, pd)
        k == FirstWhere(r.names, {n \in Range(r.names) : Absent(pd, n)})
        objects == {r.names[x] : x \in 1..(k - 1)}
        cleared == [x \in DOMAIN pd |->
                       IF pd[x].name \in objects /\ pd[i].loaded
                       THEN [pd[x] EXCEPT !.can_load = FALSE]
                       ELSE pd[x]]
    IN Result(cleared,
              IF k <= Len(r.names) \/ r.fails THEN "KeyError" ELSE "none",
              FALSE)

\* load-before that goes on stopping its objects once the subject is loaded.
load_before_forever(j, i, pd) ==
    LET r == _resolve_plugin_name(pd[i].load_directives[j].module, pd)
        k == FirstWhere(r.names, {n \in Range(r.names) : Absent(pd, n)})
        objects == {r.names[x] : x \in 1..(k - 1)}
        cleared == [x \in DOMAIN pd |->
                       IF pd[x].name \in objects
                       THEN [pd[x] EXCEPT !.can_load = FALSE]
                       ELSE pd[x]]
    IN Result(cleared,
              IF k <= Len(r.names) \/ r.fails THEN "KeyError" ELSE "none",
              FALSE)

\* load-before: while the subject is not loaded, every object loses can-load.
_directive_load_before(j, i, pd) ==
    LET r == _resolve_plugin_name(pd[i].load_directives[j].module, pd)
        k == FirstWhere(r.names, {n \in Range(r.names) : Absent(pd, n)})
        objects == {r.names[x] : x \in 1..(k - 1)}
        cleared == [x \in DOMAIN pd |->
                       IF pd[x].name \in objects /\ ~pd[i].loaded
                       THEN [pd[x] EXCEPT !.can_load = FALSE]
                       ELSE pd[x]]
    IN Result(cleared,
              IF k <= Len(r.names) \/ r.fails THEN "KeyError" ELSE "none",
              FALSE)

\* load-after that lets the subject load with its objects.
load_after_never_waits(j, i, pd) ==
    LET r == _resolve_plugin_name(pd[i].load_directives[j].module, pd)
        k == FirstWhere(r.names, {n \in Range(r.names) : Absent(pd, n)})
    IN Result(pd,
              IF k <= Len(r.names) \/ r.fails THEN "KeyError" ELSE "none",
              FALSE)

\* load-after that waits only for the objects ahead of the subject in the
\* registry.
load_after_earlier_only(j, i, pd) ==
    LET r == _resolve_plugin_name(pd[i].load_directives[j].module, pd)
        k == FirstWhere(r.names, {n \in Range(r.names) : Absent(pd, n)})
        waiting == \E x \in 1..(k - 1) :
                       /\ IndexOf(pd, r.names[x]) < i
                       /\ ~pd[IndexOf(pd, r.names[x])].loaded
    IN Result(IF waiting THEN [pd EXCEPT ![i].can_load = FALSE] ELSE pd,
              IF k <= Len(r.names) \/ r.fails THEN "KeyError" ELSE "none",
              FALSE)

\* load-after: while some object is not loaded, the subject loses can-load.
_directive_load_after(j, i, pd) ==
    LET r == _resolve_plugin_name(pd[i].load_directives[j].module, pd)
        k == FirstWhere(r.names, {n \in Range(r.names) : Absent(pd, n)})
        waiting == \E x \in 1..(k - 1) : ~pd[IndexOf(pd, r.names[x])].loaded
    IN Result(IF waiting THEN [pd EXCEPT ![i].can_load = FALSE] ELSE pd,
              IF k <= Len(r.names) \/ r.fails THEN "KeyError" ELSE "none",
              FALSE)

\* load-deny that vetoes a plugin only once it is loaded.
load_deny_once_loaded(j, i, pd) ==
    LET r == _resolve_plugin_name(pd[i].load_directives[j].module, pd)
        k == FirstWhere(r.names,
                        {n \in Range(r.names) :
                            /\ n # pd[i].name
                            /\ Absent(pd, n) \/ pd[IndexOf(pd, n)].loaded})
    IN Result(pd,
              IF k <= Len(r.names)
              THEN IF Absent(pd, r.names[k]) THEN "KeyError"
                   ELSE "Denied plugin"
              ELSE IF r.fails THEN "KeyError" ELSE "none",
              FALSE)

\* load-deny: the first object that is not the subject aborts the run.
_directive_load_deny(j, i, pd) ==
    LET r == _resolve_plugin_name(pd[i].load_directives[j].module, pd)
        k == FirstWhere(r.names, {n \in Range(r.names) : n # pd[i].name})
    IN Result(pd,
              IF k <= Len(r.names)
              THEN IF Absent(pd, r.names[k]) THEN "KeyError"
                   ELSE "Denied plugin"
              ELSE IF r.fails THEN "KeyError" ELSE "none",
              FALSE)

\* run-after-load that never sets the executed flag.
run_after_load_unflagged(j, i, pd) ==
    LET d == pd[i].load_directives[j]
        r == _resolve_plugin_name(d.module, pd)
        k == FirstWhere(r.names,
                        {n \in Range(r.names) :
                            Absent(pd, n) \/ ~pd[IndexOf(pd, n)].loaded})
    IN IF k <= Len(r.names)
       THEN Result(pd, IF Absent(pd, r.names[k]) THEN "KeyError" ELSE "none",
                   FALSE)
       ELSE IF r.fails THEN Result(pd, "KeyError", FALSE)
       ELSE Result(pd, "none", pd[i].loaded)

\* run-after-load: once the objects and the subject are loaded, set the
\* executed flag and call the method.
_directive_run_after_load(j, i, pd) ==
    LET d == pd[i].load_directives[j]
        r == _resolve_plugin_name(d.module, pd)
        k == FirstWhere(r.names,
                        {n \in Range(r.names) :
                            Absent(pd, n) \/ ~pd[IndexOf(pd, n)].loaded})
    IN IF d.executed THEN Result(pd, "none", FALSE)
       ELSE IF k <= Len(r.names)
       THEN Result(pd, IF Absent(pd, r.names[k]) THEN "KeyError" ELSE "none",
                   FALSE)
       ELSE IF r.fails THEN Result(pd, "KeyError", FALSE)
       ELSE IF pd[i].loaded
       THEN Result([pd EXCEPT ![i].load_directives[j].executed = TRUE],
                   "none", TRUE)
       ELSE Result(pd, "none", FALSE)

\* _load_directives: the handler of a directive kind.
_load_directives(j, i, pd) ==
    LET kind == pd[i].load_directives[j].directive
    IN CASE kind = "load-after" -> _directive_load_after(j, i, pd)
         [] kind = "load-before" -> _directive_load_before(j, i, pd)
         [] kind = "load-deny" -> _directive_load_deny(j, i, pd)
         [] kind = "run-after-load" -> _directive_run_after_load(j, i, pd)

(* ----------------------------------------------------------------- state *)

VARIABLES
    plugin_data,    \* the registry: entries in registry order
    plugins,        \* the loaded-plugin set: plugins, services, plugin_data
    pc,             \* where _load_plugins stands
    at_entry,       \* the entry the loop over the registry is at
    at_directive,   \* "directives": which directive of that entry is applied
    loaded_any,
    loaded_all,
    exception,      \* what _load_plugins raised, "none" while it has not
    imported,       \* the identities import_module was called for, in order
    invoked,        \* the run-after-load methods called, in order
    cycles,         \* passes of the while loop begun
    plugin_manifest \* _apm_handler: the record as read, then as normalised

vars == <<plugin_data, plugins, pc, at_entry, at_directive, loaded_any,
          loaded_all,
          exception, imported, invoked, cycles, plugin_manifest>>

\* _load_plugin_manifests: every manifest becomes an entry, not loaded and
\* not able to load.
Entry(name, service, directives) ==
    [name |-> name, service |-> service, load_directives |-> directives,
     loaded |-> FALSE, can_load |-> FALSE]

\* A directive is irregular when its reference is a wildcard or names no
\* manifest.
Irregular(d) == d.module.wildcard \/ d.module.name = Ghost

\* k directives handed out to the entries 1..n, in registry order: at most
\* one of them irregular and, beside a wildcard, only load-after directives.
Declarations(k, n) ==
    {f \in [1..k -> (1..n) \X Directives] :
        /\ \A x \in 1..(k - 1) : f[x][1] <= f[x + 1][1]
        /\ \A x, y \in 1..k :
               x # y /\ Irregular(f[x][2]) =>
                   /\ ~Irregular(f[y][2])
                   /\ f[x][2].module.wildcard =>
                          f[y][2].directive = "load-after"}

DeclaredBy(f, x) ==
    LET own(e) == e[1] = x
        mine == SelectSeq(f, own)
    IN [y \in 1..Len(mine) |-> mine[y][2]]

\* The service classes of the manifests.  Only _resolve_plugin_name reads
\* them, and only for a wildcard: the manifests of a registry without
\* wildcards declare none.
ServiceChoices(f, n) ==
    IF \E x \in DOMAIN f : f[x][2].module.wildcard
    THEN [1..n -> {NoService} \cup ServiceClasses]
    ELSE {[x \in 1..n |-> NoService]}

\* The registries of at most MaxDirectives directives: what
\* _load_plugin_manifests leaves in plugin_data.
IsRegistry(pd) ==
    \E n \in 0..Len(Identities) :
        \E k \in 0..MaxDirectives :
            \E f \in Declarations(k, n) :
                \E svc \in ServiceChoices(f, n) :
                    pd = [x \in 1..n |->
                             Entry(Identities[x], svc[x], DeclaredBy(f, x))]

\* The package .plugins as imported: nothing loaded.
NoPlugins ==
    [plugins |-> <<>>,
     services |-> [k \in {} |-> <<>>],
     plugin_data |-> [k \in {} |-> <<>>]]

Init ==
    /\ IsRegistry(plugin_data)
    /\ plugins = NoPlugins
    /\ pc = "reset"
    /\ at_entry = 0
    /\ at_directive = 0
    /\ loaded_any = FALSE
    /\ loaded_all = FALSE
    /\ exception = "none"
    /\ imported = <<>>
    /\ invoked = <<>>
    /\ cycles = 0
    /\ plugin_manifest = <<>>

(* ------------------------------------------------------------ operations *)

\* The first entry from x on that declares a directive, 0 when none does:
\* where the nested loops of lines 243-244 come to next.
NextEntry(pd, x) ==
    LET declaring == {y \in DOMAIN pd : y >= x /\ pd[y].load_directives # <<>>}
    IN IF declaring = {} THEN 0
       ELSE CHOOSE y \in declaring : \A z \in declaring : y <= z

\* _load_plugin that leaves the entry not loaded.
load_plugin_unmarked(x, pd, pl) ==
    LET plugin_entry == pd[x]
        plugin_name == plugin_entry.name
        put(m, k, v) == [y \in DOMAIN m \cup {k} |-> IF y = k THEN v ELSE m[y]]
        listed == IF plugin_name \in DOMAIN pl.services
                  THEN pl.services[plugin_name] ELSE <<>>
    IN [pd |-> pd,
        plugins |->
            [plugins |-> IF plugin_name \in Range(pl.plugins) THEN pl.plugins
                         ELSE Append(pl.plugins, plugin_name),
             services |-> put(pl.services, plugin_name,
                              Append(listed, plugin_name)),
             plugin_data |-> put(pl.plugin_data, plugin_name, plugin_entry)]]

\* _load_plugin that stores the entry as it is once marked loaded.
load_plugin_stores_marked(x, pd, pl) ==
    LET plugin_entry == pd[x]
        plugin_name == plugin_entry.name
        put(m, k, v) == [y \in DOMAIN m \cup {k} |-> IF y = k THEN v ELSE m[y]]
        listed == IF plugin_name \in DOMAIN pl.services
                  THEN pl.services[plugin_name] ELSE <<>>
    IN [pd |-> [pd EXCEPT ![x].loaded = TRUE],
        plugins |->
            [plugins |-> IF plugin_name \in Range(pl.plugins) THEN pl.plugins
                         ELSE Append(pl.plugins, plugin_name),
             services |-> put(pl.services, plugin_name,
                              Append(listed, plugin_name)),
             plugin_data |-> put(pl.plugin_data, plugin_name,
                                 [plugin_entry EXCEPT !.loaded = TRUE])]]

\* _load_plugin: import the module, register it, mark the entry loaded.
_load_plugin(x, pd, pl) ==
    LET plugin_entry == pd[x]
        plugin_name == plugin_entry.name
        plugin_service == plugin_entry.name
        plugin_module == plugin_name
        put(m, k, v) == [y \in DOMAIN m \cup {k} |-> IF y = k THEN v ELSE m[y]]
        listed == IF plugin_service \in DOMAIN pl.services
                  THEN pl.services[plugin_service] ELSE <<>>
    IN [pd |-> [pd EXCEPT ![x].loaded = TRUE],
        plugins |->
            [plugins |-> IF plugin_name \in Range(pl.plugins) THEN pl.plugins
                         ELSE Append(pl.plugins, plugin_name),
             services |-> put(pl.services, plugin_service,
                              Append(listed, plugin_module)),
             plugin_data |-> put(pl.plugin_data, plugin_name, plugin_entry)]]

\* Lines 248-250: into the loading loop.
StartLoading ==
    /\ pc' = IF Len(plugin_data) = 0 THEN "check" ELSE "load"
    /\ at_entry' = 1
    /\ at_directive' = 0
    /\ loaded_any' = FALSE
    /\ loaded_all' = TRUE

\* Lines 243-244: on to directive y of entry x.
StartApplying(x, y) ==
    /\ pc' = "directives"
    /\ at_entry' = x
    /\ at_directive' = y
    /\ UNCHANGED <<loaded_any, loaded_all>>

\* Lines 239-240: every entry may load, until a directive says otherwise.
Reset ==
    /\ pc = "reset"
    /\ plugin_data' = [x \in DOMAIN plugin_data |->
                          [plugin_data[x] EXCEPT !.can_load = TRUE]]
    /\ cycles' = cycles + 1
    /\ IF NextEntry(plugin_data, 1) # 0
       THEN StartApplying(NextEntry(plugin_data, 1), 1)
       ELSE StartLoading
    /\ UNCHANGED <<plugins, exception, imported, invoked, plugin_manifest>>

\* After the directive applied: the next one, or the loading loop.
Advance ==
    IF at_directive < Len(plugin_data[at_entry].load_directives)
    THEN StartApplying(at_entry, at_directive + 1)
    ELSE IF NextEntry(plugin_data, at_entry + 1) # 0
    THEN StartApplying(NextEntry(plugin_data, at_entry + 1), 1)
    ELSE StartLoading

\* Line 245: the kind of the directive being applied.
Kind == plugin_data[at_entry].load_directives[at_directive].directive

\* What follows the call of a handler that left the result r.
Applied(r) ==
    /\ plugin_data' = r.pd
    /\ IF r.exc # "none"
       THEN /\ pc' = "raised"
            /\ exception' = r.exc
            /\ UNCHANGED <<at_entry, at_directive, loaded_any, loaded_all, invoked>>
       ELSE IF r.invoke
       THEN /\ pc' = "invoke"
            /\ invoked' = Append(invoked, <<at_entry, at_directive>>)
            /\ UNCHANGED <<at_entry, at_directive, loaded_any, loaded_all, exception>>
       ELSE /\ Advance
            /\ UNCHANGED <<exception, invoked>>
    /\ UNCHANGED <<plugins, imported, cycles, plugin_manifest>>

LoadAfter ==
    /\ pc = "directives"
    /\ Kind = "load-after"
    /\ Applied(_directive_load_after(at_directive, at_entry, plugin_data))

LoadBefore ==
    /\ pc = "directives"
    /\ Kind = "load-before"
    /\ Applied(_directive_load_before(at_directive, at_entry, plugin_data))

LoadDeny ==
    /\ pc = "directives"
    /\ Kind = "load-deny"
    /\ Applied(_directive_load_deny(at_directive, at_entry, plugin_data))

\* Up to line 199: the executed flag is set, the method is about to be called.
RunAfterLoad ==
    /\ pc = "directives"
    /\ Kind = "run-after-load"
    /\ Applied(_directive_run_after_load(at_directive, at_entry, plugin_data))

\* Line 200: the method called returns ...
MethodReturns ==
    /\ pc = "invoke"
    /\ Advance
    /\ UNCHANGED <<plugin_data, plugins, exception, imported, invoked, cycles,
                   plugin_manifest>>

\* ... or the module has no such method, or the method raises.
MethodRaises ==
    /\ pc = "invoke"
    /\ pc' = "raised"
    /\ exception' = "MethodError"
    /\ UNCHANGED <<plugin_data, plugins, at_entry, at_directive, loaded_any,
                   loaded_all,
                   imported, invoked, cycles, plugin_manifest>>

\* Lines 250-255, one entry of the loading loop.
Visit(next_pd, next_plugins, any, all) ==
    /\ plugin_data' = next_pd
    /\ plugins' = next_plugins
    /\ loaded_any' = any
    /\ loaded_all' = all
    /\ IF at_entry < Len(plugin_data)
       THEN at_entry' = at_entry + 1 /\ pc' = "load"
       ELSE at_entry' = at_entry /\ pc' = "check"
    /\ UNCHANGED <<at_directive, exception, invoked, cycles, plugin_manifest>>

\* The loading loop that counts a plugin it loads among those found loaded.
load_plugin_counts_as_loaded ==
    /\ pc = "load"
    /\ ~plugin_data[at_entry].loaded
    /\ plugin_data[at_entry].can_load
    /\ LET r == _load_plugin(at_entry, plugin_data, plugins)
       IN Visit(r.pd, r.plugins, TRUE, loaded_all)
    /\ imported' = Append(imported, plugin_data[at_entry].name)

LoadPlugin ==
    /\ pc = "load"
    /\ ~plugin_data[at_entry].loaded
    /\ plugin_data[at_entry].can_load
    /\ LET r == _load_plugin(at_entry, plugin_data, plugins)
       IN Visit(r.pd, r.plugins, TRUE, FALSE)
    /\ imported' = Append(imported, plugin_data[at_entry].name)

LeaveBlocked ==
    /\ pc = "load"
    /\ ~plugin_data[at_entry].loaded
    /\ ~plugin_data[at_entry].can_load
    /\ Visit(plugin_data, plugins, loaded_any, FALSE)
    /\ UNCHANGED imported

PassLoaded ==
    /\ pc = "load"
    /\ plugin_data[at_entry].loaded
    /\ Visit(plugin_data, plugins, loaded_any, loaded_all)
    /\ UNCHANGED imported

\* Lines 258-259.
AllLoaded ==
    /\ pc = "check"
    /\ loaded_all
    /\ pc' = "returned"
    /\ UNCHANGED <<plugin_data, plugins, at_entry, at_directive, loaded_any,
                   loaded_all,
                   exception, imported, invoked, cycles, plugin_manifest>>

\* The check that lets a pass that loaded nothing go around again.
stuck_goes_around ==
    /\ pc = "check"
    /\ ~loaded_all
    /\ ~loaded_any
    /\ pc' = "reset"
    /\ UNCHANGED <<plugin_data, plugins, at_entry, at_directive, loaded_any,
                   loaded_all,
                   exception, imported, invoked, cycles, plugin_manifest>>

\* Lines 262-263.
Stuck ==
    /\ pc = "check"
    /\ ~loaded_all
    /\ ~loaded_any
    /\ pc' = "raised"
    /\ exception' = "Plugins are being blocked"
    /\ UNCHANGED <<plugin_data, plugins, at_entry, at_directive, loaded_any,
                   loaded_all,
                   imported, invoked, cycles, plugin_manifest>>

\* Line 237: around again.
NextCycle ==
    /\ pc = "check"
    /\ ~loaded_all
    /\ loaded_any
    /\ pc' = "reset"
    /\ UNCHANGED <<plugin_data, plugins, at_entry, at_directive, loaded_any,
                   loaded_all,
                   exception, imported, invoked, cycles, plugin_manifest>>

Next ==
    \/ Reset
    \/ LoadAfter
    \/ LoadBefore
    \/ LoadDeny
    \/ RunAfterLoad
    \/ MethodReturns
    \/ MethodRaises
    \/ LoadPlugin
    \/ LeaveBlocked
    \/ PassLoaded
    \/ AllLoaded
    \/ Stuck
    \/ NextCycle

Spec == Init /\ [][Next]_vars

\* _load_plugins runs in one thread and nothing suspends it: while a step
\* is possible, one is taken.  A run-after-load method called is taken to
\* come back, returning or raising.
FairSpec == Spec /\ WF_vars(Next)

(* ------------------------------------------------- the run as a function *)

\* _load_plugins from a registry to its end, every run-after-load method
\* returning: what it raised, the loaded-plugin set it leaves and loads,
\* the identities each pass that came to the loading loop has loaded.

\* Lines 243-245 from directive y of entry x on.
RECURSIVE ApplyFrom(_, _, _)
ApplyFrom(pd, x, y) ==
    IF x > Len(pd) THEN [pd |-> pd, exc |-> "none"]
    ELSE IF y > Len(pd[x].load_directives) THEN ApplyFrom(pd, x + 1, 1)
    ELSE LET r == _load_directives(y, x, pd)
         IN IF r.exc # "none" THEN [pd |-> r.pd, exc |-> r.exc]
            ELSE ApplyFrom(r.pd, x, y + 1)

\* Lines 250-255 from entry x on.
RECURSIVE LoadFrom(_, _, _, _, _)
LoadFrom(x, pd, pl, any, all) ==
    IF x > Len(pd)
    THEN [pd |-> pd, plugins |-> pl, loaded_any |-> any, loaded_all |-> all]
    ELSE IF pd[x].loaded THEN LoadFrom(x + 1, pd, pl, any, all)
    ELSE IF pd[x].can_load
    THEN LET r == _load_plugin(x, pd, pl)
         IN LoadFrom(x + 1, r.pd, r.plugins, TRUE, FALSE)
    ELSE LoadFrom(x + 1, pd, pl, any, FALSE)

\* Lines 237-263.
RECURSIVE _load_plugins(_, _)
_load_plugins(pd, pl) ==
    LET reset == [x \in DOMAIN pd |-> [pd[x] EXCEPT !.can_load = TRUE]]
        applied == ApplyFrom(reset, 1, 1)
        after == LoadFrom(1, applied.pd, pl, FALSE, TRUE)
        this == Range(after.plugins.plugins) \ Range(pl.plugins)
    IN IF applied.exc # "none"
       THEN [pc |-> "raised", exception |-> applied.exc, plugins |-> pl,
             loads |-> <<>>]
       ELSE IF after.loaded_all
       THEN [pc |-> "returned", exception |-> "none",
             plugins |-> after.plugins, loads |-> <<this>>]
       ELSE IF ~after.loaded_any
       THEN [pc |-> "raised", exception |-> "Plugins are being blocked",
             plugins |-> after.plugins, loads |-> <<this>>]
       ELSE LET rest == _load_plugins(after.pd, after.plugins)
            IN [rest EXCEPT !.loads = <<this>> \o @]

(* ----------------------------------------------- manifest normalisation *)

\* A manifest record is a Python dict: a function from its keys.  None is
\* JSON's null.
None == "None"

\* The keys _parse_apm_json_0_1_0 supplies.
Supplied == {"human-name", "requirements", "load-directives", "files"}

\* The keys a raw record may or may not have; it has "format".
OptionalKeys == Supplied \cup {"name", "service"}

\* What a raw record may hold under a key.
Options(key) ==
    CASE key = "name" -> <<"a">>
      [] key = "human-name" -> <<"A", None>>
      [] key = "requirements" -> << <<>>, <<"r">> >>
      [] key = "load-directives" ->
             << <<>>, <<[directive |-> "load-after", module |-> "b"]>> >>
      [] key = "files" -> << <<>>, <<"a.py">> >>
      [] key = "service" -> <<"svc">>

\* json.load: the raw record of format 0.1.0 with the given keys.
RawRecord(keys, choice) ==
    [k \in keys \cup {"format"} |->
        IF k = "format" THEN "0.1.0" ELSE Options(k)[choice[k]]]

\* Lines 94-96: the record has no usable human name.
Unnamed(r) ==
    IF "human-name" \in DOMAIN r THEN r["human-name"] = None ELSE TRUE

\* The normaliser whose defaults replace what the record holds.
parse_defaults_win(r) ==
    LET plugin_human_name == IF Unnamed(r) THEN r["name"]
                             ELSE r["human-name"]
    IN [k \in Supplied \cup DOMAIN r |->
           IF k \notin Supplied THEN r[k]
           ELSE IF k = "human-name" THEN plugin_human_name
           ELSE <<>>]

\* _parse_apm_json_0_1_0: the defaults, updated with the record.
_parse_apm_json_0_1_0(r) ==
    LET plugin_human_name == IF Unnamed(r) THEN r["name"]
                             ELSE r["human-name"]
    IN [k \in Supplied \cup DOMAIN r |->
           IF k \in DOMAIN r THEN r[k]
           ELSE IF k = "human-name" THEN plugin_human_name
           ELSE <<>>]

\* _apm_handler has read a record; the registry is still empty.
ParseInit ==
    /\ \E keys \in SUBSET OptionalKeys :
           \E choice \in [keys -> 1..2] :
               /\ \A k \in keys : choice[k] <= Len(Options(k))
               /\ plugin_manifest = <<RawRecord(keys, choice)>>
    /\ plugin_data = <<>>
    /\ plugins = NoPlugins
    /\ pc = "parse"
    /\ at_entry = 0
    /\ at_directive = 0
    /\ loaded_any = FALSE
    /\ loaded_all = FALSE
    /\ exception = "none"
    /\ imported = <<>>
    /\ invoked = <<>>
    /\ cycles = 0

\* The record as last returned.
Latest == plugin_manifest[Len(plugin_manifest)]

\* Line 87: the handler of the format returns the normalised record.
Parse ==
    /\ pc = "parse"
    /\ Len(plugin_manifest) <= MaxPasses
    /\ Unnamed(Latest) => "name" \in DOMAIN Latest
    /\ plugin_manifest' =
           Append(plugin_manifest, _parse_apm_json_0_1_0(Latest))
    /\ UNCHANGED <<plugin_data, plugins, pc, at_entry, at_directive,
                   loaded_any, loaded_all, exception, imported, invoked,
                   cycles>>

\* Line 96: neither a human name nor a name.
ParseRaises ==
    /\ pc = "parse"
    /\ Len(plugin_manifest) <= MaxPasses
    /\ Unnamed(Latest)
    /\ "name" \notin DOMAIN Latest
    /\ pc' = "raised"
    /\ exception' = "KeyError"
    /\ UNCHANGED <<plugin_data, plugins, at_entry, at_directive, loaded_any,
                   loaded_all, imported, invoked, cycles, plugin_manifest>>

ParseNext ==
    \/ Parse
    \/ ParseRaises

ParseSpec == ParseInit /\ [][ParseNext]_vars

(* ------------------------------------------------------------ vocabulary *)

Terminated == pc \in {"returned", "raised"}

Loaded(name) == plugin_data[IndexOf(plugin_data, name)].loaded

\* u comes before v in the sequence s.
Before(s, u, v) ==
    \E x, y \in DOMAIN s : x < y /\ s[x] = u /\ s[y] = v

NoDuplicates(s) == \A x, y \in DOMAIN s : s[x] = s[y] => x = y

\* The directives of entry x of the given kind.
Declared(pd, x, kind) ==
    {j \in DOMAIN pd[x].load_directives :
        pd[x].load_directives[j].directive = kind}

\* What the reference of directive j of entry x resolves to.
Objects(pd, x, j) ==
    Range(_resolve_plugin_name(pd[x].load_directives[j].module, pd).names)

\* The waits the directives state: <<u, v>> when entry u has to be loaded
\* before entry v can be.
MustPrecede(pd) ==
    LET objects(x, kind) ==
            UNION {Objects(pd, x, j) : j \in Declared(pd, x, kind)}
        after == UNION {{<<IndexOf(pd, n), v>> : n \in objects(v, "load-after")} :
                        v \in DOMAIN pd}
        before == UNION {{<<u, IndexOf(pd, n)>> : n \in objects(u, "load-before")} :
                         u \in DOMAIN pd}
    IN {e \in after \cup before : e[1] # 0 /\ e[2] # 0}

\* The entries that wait, through at most n waits, for an entry of from.
RECURSIVE Waiting(_, _, _)
Waiting(waits, from, n) ==
    LET next == {e[2] : e \in {w \in waits : w[1] \in from}}
    IN IF n = 1 THEN next ELSE next \cup Waiting(waits, next, n - 1)

\* The entries that wait for themselves.
OnCycle(pd) ==
    LET waits == MustPrecede(pd)
    IN IF waits = {} THEN {}
       ELSE {u \in DOMAIN pd : u \in Waiting(waits, {u}, Len(pd))}

\* Every reference resolves, and to entries of the registry.
AllResolve(pd) ==
    \A x \in DOMAIN pd : \A j \in DOMAIN pd[x].load_directives :
        LET r == _resolve_plugin_name(pd[x].load_directives[j].module, pd)
        IN ~r.fails /\ \A n \in Range(r.names) : ~Absent(pd, n)

OrderingOnly(pd) ==
    \A x \in DOMAIN pd : \A j \in DOMAIN pd[x].load_directives :
        pd[x].load_directives[j].directive \in {"load-before", "load-after"}

(* ---------------------------------------------------------------- claims *)

\* C1: when A declares load-after(B) and B is in the registry, B is loaded
\* whenever A is, and was imported before A.
C1_LoadAfterOrder ==
    \A x \in DOMAIN plugin_data :
        \A j \in Declared(plugin_data, x, "load-after") :
            LET ref == plugin_data[x].load_directives[j].module
            IN ~ref.wildcard /\ ~Absent(plugin_data, ref.name)
                   /\ plugin_data[x].loaded
               => /\ Loaded(ref.name)
                  /\ Before(imported, ref.name, plugin_data[x].name)

\* C1 witness: a plugin that declares load-after(B) has been loaded.
C1_Witness ==
    \E x \in DOMAIN plugin_data :
        \E j \in Declared(plugin_data, x, "load-after") :
            LET ref == plugin_data[x].load_directives[j].module
            IN /\ ~ref.wildcard
               /\ ~Absent(plugin_data, ref.name)
               /\ plugin_data[x].loaded
               /\ pc = "returned"

\* The registry as _load_plugin_manifests left it: nothing loaded, nothing
\* executed.
Manifests(pd) ==
    [x \in DOMAIN pd |->
        [pd[x] EXCEPT
            !.loaded = FALSE,
            !.can_load = FALSE,
            !.load_directives =
                [j \in DOMAIN @ |-> [@[j] EXCEPT !.executed = FALSE]]]]

RemoveAt(s, j) == SubSeq(s, 1, j - 1) \o SubSeq(s, j + 1, Len(s))

InsertAt(s, j, e) == SubSeq(s, 1, j - 1) \o <<e>> \o SubSeq(s, j, Len(s))

\* The registry pd with directive j of entry x, "x load-before y", taken
\* out and "y load-after x" declared by y instead, as its directive number k.
Mirrored(pd, x, j, y, k) ==
    LET without == [pd EXCEPT ![x].load_directives = RemoveAt(@, j)]
        after == [directive |-> "load-after",
                  module |-> Concrete(pd[x].name),
                  executed |-> FALSE]
    IN [without EXCEPT ![y].load_directives = InsertAt(@, k, after)]

\* C2: when the run has ended (no run-after-load method having raised), the
\* run of every registry that differs only in stating one "A load-before B"
\* as "B load-after A" ends the same way with the same load order.
C2_BeforeAfterSymmetry ==
    Terminated /\ exception # "MethodError" =>
        \A x \in DOMAIN plugin_data :
            \A j \in Declared(plugin_data, x, "load-before") :
                LET ref == plugin_data[x].load_directives[j].module
                    y == IndexOf(plugin_data, ref.name)
                    pd == Manifests(plugin_data)
                IN ~ref.wildcard /\ y # 0 =>
                       \A k \in 1..Len(RemoveAt(pd[y].load_directives,
                                                IF x = y THEN j ELSE 0)) + 1 :
                           LET other == _load_plugins(
                                            Mirrored(pd, x, j, y, k), NoPlugins)
                           IN /\ other.pc = pc
                              /\ other.exception = exception
                              /\ other.plugins.plugins = plugins.plugins

\* C2 witness: a run with "A load-before B", B ahead of A in the registry,
\* has loaded both.
C2_Witness ==
    /\ pc = "returned"
    /\ \E x \in DOMAIN plugin_data :
           \E j \in Declared(plugin_data, x, "load-before") :
               LET ref == plugin_data[x].load_directives[j].module
                   y == IndexOf(plugin_data, ref.name)
               IN ~ref.wildcard /\ y # 0 /\ y < x
                      /\ Before(plugins.plugins, plugin_data[x].name, ref.name)

\* Some entry of the registry waits for itself.
HasCycle == OnCycle(plugin_data) # {}

\* C3 as stated: with a cyclic wait in the registry (every reference
\* resolving to entries) the run ends in "Plugins are being blocked", no
\* plugin of the cycle loaded.
C3_CycleAlwaysDeadlocks ==
    HasCycle /\ AllResolve(plugin_data) /\ Terminated =>
        /\ pc = "raised"
        /\ exception = "Plugins are being blocked"
        /\ \A u \in OnCycle(plugin_data) : ~plugin_data[u].loaded

\* C3 amended: with a cyclic wait in the registry no plugin of the cycle is
\* ever loaded, the run never returns, and unless the application of a
\* directive raises first it ends in "Plugins are being blocked", raised in
\* the first cycle that loads nothing.
C3_CycleNeverLoads ==
    HasCycle =>
        /\ \A u \in OnCycle(plugin_data) : ~plugin_data[u].loaded
        /\ pc # "returned"
        /\ pc = "check" => ~loaded_all
        /\ pc = "raised" =>
               \/ /\ exception = "Plugins are being blocked"
                  /\ ~loaded_any
                  /\ Len(imported) >= cycles - 1
               \/ /\ exception \in {"Denied plugin", "KeyError", "MethodError"}
                  /\ at_entry \in DOMAIN plugin_data
                  /\ at_directive \in DOMAIN plugin_data[at_entry].load_directives
                  /\ (exception = "MethodError") = (Kind = "run-after-load"
                          /\ invoked # <<>>
                          /\ invoked[Len(invoked)] = <<at_entry, at_directive>>)

\* C3 witness: a run over a registry with a cyclic wait has ended in
\* "Plugins are being blocked" after loading a plugin off the cycle.
C3_Witness ==
    /\ HasCycle
    /\ pc = "raised"
    /\ exception = "Plugins are being blocked"
    /\ imported # <<>>

\* C4: over a registry of load-before and load-after directives only, whose
\* references all resolve to entries and which has no cyclic wait, the run
\* raises nothing, every cycle that leaves a plugin unloaded loads one, and
\* the run returns only with every plugin loaded, within Len + 1 cycles.
C4_NoFalseDeadlock ==
    /\ OrderingOnly(plugin_data)
    /\ AllResolve(plugin_data)
    /\ ~HasCycle
    => /\ pc # "raised"
       /\ exception = "none"
       /\ pc = "check" /\ ~loaded_all => loaded_any
       /\ pc = "returned" => \A x \in DOMAIN plugin_data : plugin_data[x].loaded
       /\ cycles <= Len(plugin_data) + 1

\* C4 witness: such a registry, with a chain of two waits, has been loaded
\* in three cycles and the run has returned.
C4_Witness ==
    /\ OrderingOnly(plugin_data)
    /\ AllResolve(plugin_data)
    /\ ~HasCycle
    /\ \A x \in DOMAIN plugin_data : Len(plugin_data[x].load_directives) <= 1
    /\ Cardinality({x \in DOMAIN plugin_data :
                       plugin_data[x].load_directives # <<>>}) = 2
    /\ pc = "returned"
    /\ cycles = 4

\* Entry x declares load-deny of a reference that names, or whose service
\* class matches, another entry of the registry.
Denies(pd, x) ==
    \E j \in Declared(pd, x, "load-deny") :
        LET ref == pd[x].load_directives[j].module
        IN \E y \in DOMAIN pd :
               /\ y # x
               /\ IF ref.wildcard THEN pd[y].service = ref.name
                  ELSE pd[y].name = ref.name

\* No directive names an identity that is not in the registry.
NoneDangling(pd) ==
    \A x \in DOMAIN pd : \A j \in DOMAIN pd[x].load_directives :
        LET ref == pd[x].load_directives[j].module
        IN ~ref.wildcard => ~Absent(pd, ref.name)

\* C5: when some A declares load-deny(B), B another entry of the registry
\* (no directive naming an identity outside it), the run ends in
\* "Denied plugin".
C5_DenyIsAbsolute ==
    (\E x \in DOMAIN plugin_data : Denies(plugin_data, x))
        /\ NoneDangling(plugin_data) /\ Terminated
    => pc = "raised" /\ exception = "Denied plugin"

\* C6: when A declares load-after($svc) and is not of service class svc
\* itself, every entry of class svc is loaded whenever A is, and was
\* imported before A.
C6_WildcardLoadAfter ==
    \A x \in DOMAIN plugin_data :
        \A j \in Declared(plugin_data, x, "load-after") :
            LET ref == plugin_data[x].load_directives[j].module
            IN ref.wildcard /\ plugin_data[x].service # ref.name
                   /\ plugin_data[x].loaded
               => \A y \in DOMAIN plugin_data :
                      plugin_data[y].service = ref.name =>
                          /\ plugin_data[y].loaded
                          /\ Before(imported, plugin_data[y].name,
                                    plugin_data[x].name)

\* C6 witness: A, declaring load-after($svc), has been loaded after two
\* plugins of class svc.
C6_Witness ==
    \E x \in DOMAIN plugin_data :
        \E j \in Declared(plugin_data, x, "load-after") :
            LET ref == plugin_data[x].load_directives[j].module
            IN /\ ref.wildcard
               /\ plugin_data[x].service # ref.name
               /\ plugin_data[x].loaded
               /\ Cardinality({y \in DOMAIN plugin_data :
                                  plugin_data[y].service = ref.name}) = 2

\* C7: no run-after-load method is called twice, and the subject and every
\* plugin the reference resolves to are loaded when it is called (and so,
\* loaded being kept, ever after) and its executed flag is set.
C7_RunAfterLoadOnce ==
    /\ NoDuplicates(invoked)
    /\ pc = "invoke" =>
           invoked # <<>> /\ invoked[Len(invoked)] = <<at_entry, at_directive>>
    /\ \A e \in Range(invoked) :
           LET d == plugin_data[e[1]].load_directives[e[2]]
               r == _resolve_plugin_name(d.module, plugin_data)
           IN /\ d.directive = "run-after-load"
              /\ d.executed
              /\ plugin_data[e[1]].loaded
              /\ ~r.fails
              /\ \A n \in Range(r.names) :
                     ~Absent(plugin_data, n) /\ Loaded(n)

\* C7 witness: a run-after-load directive whose method has been called is
\* about to be applied again, in a later cycle.
C7_Witness ==
    /\ pc = "directives"
    /\ Kind = "run-after-load"
    /\ <<at_entry, at_directive>> \in Range(invoked)
    /\ Objects(plugin_data, at_entry, at_directive)
           # {plugin_data[at_entry].name}

DirectiveFree ==
    \A x \in DOMAIN plugin_data : plugin_data[x].load_directives = <<>>

AllAreLoaded == \A x \in DOMAIN plugin_data : plugin_data[x].loaded

\* C8 as stated: over a registry without directives the run returns, every
\* plugin loaded, after a single pass of the loop.
C8_OnePass ==
    DirectiveFree /\ Terminated =>
        pc = "returned" /\ AllAreLoaded /\ cycles = 1

\* C8 amended: over a registry without directives every plugin is loaded
\* in the first cycle; the run raises nothing and returns at the check of
\* the second pass, which loads nothing (of the first when the registry is
\* empty).
C8_LoadedInFirstCycle ==
    DirectiveFree =>
        /\ pc # "raised"
        /\ (pc = "check" \/ cycles >= 2) => AllAreLoaded
        /\ pc = "check" /\ cycles = 2 => loaded_all /\ ~loaded_any
        /\ Len(imported) <= Len(plugin_data)
        /\ cycles <= 2
        /\ pc = "returned" =>
               /\ AllAreLoaded
               /\ cycles = IF Len(plugin_data) = 0 THEN 1 ELSE 2

\* C8 witness: the run over three plugins without directives has returned.
C8_Witness ==
    /\ DirectiveFree
    /\ Len(plugin_data) = 3
    /\ pc = "returned"
    /\ cycles = 2

\* C9: a loaded flag once set stays set, it is set by the import of the
\* plugin, and import_module is called at most once for an identity,
\* however the run ends.
C9_LoadedOnce ==
    [][/\ \A x \in DOMAIN plugin_data :
              /\ plugin_data[x].loaded => plugin_data'[x].loaded
              /\ plugin_data'[x].loaded =
                     (plugin_data[x].name \in Range(imported'))
       /\ NoDuplicates(imported')]_vars

\* C9 witness: a run has ended in an exception with a plugin loaded.
C9_Witness ==
    /\ pc = "raised"
    /\ imported # <<>>
    /\ \E x \in DOMAIN plugin_data : plugin_data[x].loaded

\* The service class of an entry: the one its manifest declares, its
\* identity when it declares none.
ServiceClassOf(e) == IF e.service = NoService THEN e.name ELSE e.service

\* C10: services lists, under every service class and in load order, the
\* handles of the loaded plugins of that class.
C10_ServicesByClass ==
    \A class \in ServiceClasses \cup Range(Identities) :
        LET ofClass(n) ==
                ServiceClassOf(plugin_data[IndexOf(plugin_data, n)]) = class
            listed == IF class \in DOMAIN plugins.services
                      THEN plugins.services[class] ELSE <<>>
        IN listed = SelectSeq(plugins.plugins, ofClass)

\* C11: the service class of a manifest that declares none is its identity:
\* the wildcard of that identity resolves to the plugin, and no wildcard
\* fails to resolve over a registry holding such a manifest.
C11_ServiceDefaultsToIdentity ==
    \A x \in DOMAIN plugin_data :
        plugin_data[x].service = NoService =>
            /\ LET own == Wildcard(plugin_data[x].name)
                   r == _resolve_plugin_name(own, plugin_data)
               IN ~r.fails /\ plugin_data[x].name \in Range(r.names)
            /\ \A ref \in References :
                   ref.wildcard => ~_resolve_plugin_name(ref, plugin_data).fails

\* The load-deny about to be applied names an identity outside the registry,
\* or resolves to nothing but its own subject.
DenyOfNobody ==
    /\ pc = "directives"
    /\ Kind = "load-deny"
    /\ LET ref == plugin_data[at_entry].load_directives[at_directive].module
           r == _resolve_plugin_name(ref, plugin_data)
       IN IF ref.wildcard
          THEN ~r.fails /\ Range(r.names) \subseteq {plugin_data[at_entry].name}
          ELSE \/ Absent(plugin_data, ref.name)
               \/ ref.name = plugin_data[at_entry].name

\* C12: applying a load-deny of an absent identity, or of the subject alone,
\* raises nothing and changes no flag; the run goes on.
C12_DenySparesAbsentAndSelf ==
    [][DenyOfNobody =>
           /\ plugin_data' = plugin_data
           /\ plugins' = plugins
           /\ exception' = "none"
           /\ pc' # "raised"]_vars

\* C13: normalising a normalised record returns it unchanged, and so does
\* normalising a record that has a human name, requirements, load
\* directives and files.
C13_NormalizeIdempotent ==
    /\ \A k \in 3..Len(plugin_manifest) :
           plugin_manifest[k] = plugin_manifest[k - 1]
    /\ Len(plugin_manifest) >= 2 /\ Supplied \subseteq DOMAIN plugin_manifest[1]
       => plugin_manifest[2] = plugin_manifest[1]

\* C13 witness: a record without requirements and with a null human name
\* has been normalised twice.
C13_Witness ==
    /\ Len(plugin_manifest) >= 3
    /\ "requirements" \notin DOMAIN plugin_manifest[1]
    /\ "human-name" \in DOMAIN plugin_manifest[1]
    /\ plugin_manifest[1]["human-name"] = None
    /\ plugin_manifest[2] # plugin_manifest[1]

\* C14: the run ends; every pass of the loop that does not end it has
\* loaded a plugin that was not loaded, so that no more than Len + 1 passes
\* are begun.
C14_Terminates ==
    /\ <>Terminated
    /\ [](cycles <= Len(plugin_data) + 1)
    /\ [](pc = "reset" => Len(imported) >= cycles)
    /\ [](NoDuplicates(imported) /\ Len(imported) <= Len(plugin_data))

\* C14 witness: the run over three plugins has ended in its fourth pass.
C14_Witness ==
    /\ Terminated
    /\ Len(plugin_data) = 3
    /\ cycles = 4

\* C15: the executed flag of a run-after-load directive is still false while
\* its method is being called, and stays false when the call fails.
C15_ExecutedAfterReturn ==
    pc = "invoke" \/ (pc = "raised" /\ exception = "MethodError") =>
        ~plugin_data[at_entry].load_directives[at_directive].executed

\* The run-after-load about to be applied has not executed, its subject is
\* not loaded, and its reference is an identity or a wildcard that resolves.
RunAfterLoadOfUnloaded ==
    /\ pc = "directives"
    /\ Kind = "run-after-load"
    /\ ~plugin_data[at_entry].load_directives[at_directive].executed
    /\ ~plugin_data[at_entry].loaded
    /\ LET ref == plugin_data[at_entry].load_directives[at_directive].module
       IN ref.wildcard => ~_resolve_plugin_name(ref, plugin_data).fails

\* C16: applying such a directive calls no method, changes no flag and
\* raises nothing, whether its objects are loaded, unloaded or absent.
C16_UnloadedSubjectNoOp ==
    [][RunAfterLoadOfUnloaded =>
           /\ plugin_data' = plugin_data
           /\ plugins' = plugins
           /\ invoked' = invoked
           /\ exception' = "none"
           /\ pc' \notin {"raised", "invoke"}]_vars

\* C17: the loaded-plugin set holds, for exactly the loaded plugins, the
\* entry as it was when _load_plugin copied it (able to load, not yet marked
\* loaded, no directive executed), whatever the registry entry has become.
C17_SnapshotKept ==
    /\ DOMAIN plugins.plugin_data =
           {plugin_data[x].name : x \in {y \in DOMAIN plugin_data :
                                            plugin_data[y].loaded}}
    /\ \A x \in DOMAIN plugin_data :
           plugin_data[x].loaded =>
               plugins.plugin_data[plugin_data[x].name] =
                   [Manifests(plugin_data)[x] EXCEPT !.can_load = TRUE]

\* C17 witness: since a plugin was loaded, its entry was marked loaded and
\* had a directive marked executed, and the run has returned.
C17_Witness ==
    \E x \in DOMAIN plugin_data :
        /\ pc = "returned"
        /\ plugin_data[x].loaded
        /\ \E j \in DOMAIN plugin_data[x].load_directives :
               plugin_data[x].load_directives[j].executed

\* The orders in which n manifests may be discovered.
Orders(n) ==
    {p \in [1..n -> 1..n] : \A x, y \in 1..n : p[x] = p[y] => x = y}

\* The registry pd with its entries in the order p.
Reordered(pd, p) == [x \in DOMAIN pd |-> pd[p[x]]]

\* C18: when the run over a registry of load-before and load-after
\* directives whose references all resolve has ended, the run over the same
\* manifests in any other registry order ends the same way, has loaded the
\* same plugins, and loaded the same plugins in each pass.
C18_OrderIndependent ==
    Terminated /\ OrderingOnly(plugin_data) /\ AllResolve(plugin_data) =>
        LET pd == Manifests(plugin_data)
            this == _load_plugins(pd, NoPlugins)
        IN /\ this.pc = pc
           /\ this.exception = exception
           /\ this.plugins = plugins
           /\ Len(this.loads) = cycles
           /\ \A p \in Orders(Len(pd)) :
                  LET other == _load_plugins(Reordered(pd, p), NoPlugins)
                  IN /\ other.pc = pc
                     /\ other.exception = exception
                     /\ Range(other.plugins.plugins) = Range(plugins.plugins)
                     /\ other.loads = this.loads

\* C18 witness: a run has returned after loading in two passes, its
\* registry holding a wait for a plugin further down the registry and a
\* wait for a plugin further up.
C18_Witness ==
    /\ pc = "returned"
    /\ OrderingOnly(plugin_data)
    /\ AllResolve(plugin_data)
    /\ cycles = 3
    /\ \E e \in MustPrecede(plugin_data) : e[1] < e[2]
    /\ \E e \in MustPrecede(plugin_data) : e[1] > e[2]

\* C19: when the run has returned, every run-after-load directive of the
\* registry is marked executed and its method has been called exactly once.
C19_HooksRunOnSuccess ==
    pc = "returned" =>
        \A x \in DOMAIN plugin_data :
            \A j \in Declared(plugin_data, x, "run-after-load") :
                /\ plugin_data[x].load_directives[j].executed
                /\ Cardinality({k \in DOMAIN invoked :
                                   invoked[k] = <<x, j>>}) = 1

\* C19 witness: the run has returned over a registry of two run-after-load
\* directives, one of them naming a plugin other than its subject.
C19_Witness ==
    /\ pc = "returned"
    /\ Len(invoked) = 2
    /\ \E x \in DOMAIN plugin_data :
           \E j \in Declared(plugin_data, x, "run-after-load") :
               Objects(plugin_data, x, j) # {plugin_data[x].name}

\* C20: "Denied plugin" is raised by a load-deny applied in the first pass
\* of the loop: nothing has been imported or loaded, and no run-after-load
\* method has been called.
C20_DeniedInFirstCycle ==
    exception = "Denied plugin" =>
        /\ pc = "raised"
        /\ Kind = "load-deny"
        /\ cycles = 1
        /\ imported = <<>>
        /\ invoked = <<>>
        /\ plugins = NoPlugins
        /\ \A x \in DOMAIN plugin_data : ~plugin_data[x].loaded

\* C20 witness: "Denied plugin" has been raised by the last entry of a
\* registry of three, after a load-after of the first was applied.
C20_Witness ==
    /\ exception = "Denied plugin"
    /\ Len(plugin_data) = 3
    /\ at_entry = 3
    /\ Declared(plugin_data, 1, "load-after") # {}

====
